---- MODULE Spec2Model ----
(***************************************************************************)
(* LazyDevOps (main.go): a command-line program that lists the active pull *)
(* requests of an Azure DevOps project and prints one table row per pull   *)
(* request with a vote summary and an overall check status.                *)
(*                                                                         *)
(* Four specifications share the variables below:                          *)
(*   Spec        the whole run of main(): getConfig, fetchActivePRs (with  *)
(*               its strict -> permissive retry), the sort, printTable's   *)
(*               loop of status calls, the render, and every exit;         *)
(*   SpecStatus  getPRStatusOverall's response handling and reduction, on  *)
(*               every response up to MaxStatuses records;                 *)
(*   SpecVotes   summarizeVotesTyped on every reviewer list up to          *)
(*               MaxReviewers reviewers;                                   *)
(*   SpecSort    the run of main() on lists of up to MaxSortLen pull       *)
(*               requests, long enough for sort.Slice to leave its         *)
(*               insertion sort, with every status call answered alike.    *)
(*                                                                         *)
(* Text that the code inspects character by character (a check's state,    *)
(* lowered by strings.ToLower) is a sequence of one-character strings;     *)
(* text the code only passes around or prints is a TLA+ string.            *)
(***************************************************************************)
EXTENDS Integers, Sequences, FiniteSets, TLC

VARIABLES
    pc,          \* position of main(): getConfig, fetch, retry, main, rows, render, exited
    args,        \* the command line and environment: flags, other arguments, token
    cfg,         \* the config getConfig returned (NoCfg before)
    requests,    \* every HTTP request issued so far, in order
    listResp,    \* the last response received from the pull-request-list endpoint
    heads,       \* per request, the response's transport, code and body kind
    fetched,     \* the list fetchActivePRs returned, as returned
    prs,         \* main's slice: the returned list, sorted in place
    err,         \* fetchActivePRs' returned error ("" is nil)
    statusResps, \* the response each status call received, in call order
    rows,        \* the rows appended to the table writer
    stdout,      \* what was written to standard output
    stderr,      \* what was written to standard error
    exitCode,    \* the process's exit code, once pc = "exited"
    sresp,       \* SpecStatus: the response handed to getPRStatusOverall
    slabel,      \* SpecStatus: the label it returned (NotYet before)
    reviewers,   \* SpecVotes: the reviewer list handed to summarizeVotesTyped
    votes        \* SpecVotes: the string it returned (NotYet before)

vars == <<pc, args, cfg, requests, heads, listResp, fetched, prs, err, statusResps,
          rows, stdout, stderr, exitCode, sresp, slabel, reviewers, votes>>

mainVars == <<pc, args, cfg, requests, heads, listResp, fetched, prs, err,
              statusResps, rows, stdout, stderr, exitCode>>

(***************************************************************************)
(* Bounds of the model.                                                    *)
(***************************************************************************)
MaxPRs == 2
MaxStatuses == 3
MaxReviewers == 3
MaxSortLen == 13

(***************************************************************************)
(* strings.ToLower.  A rune is a one-character string, or "U+xxxx" for a   *)
(* rune outside ASCII.  unicode.ToLower maps the ASCII capitals, and also  *)
(* capitals outside ASCII: U+0130 (capital I with dot above) to "i",       *)
(* U+212A (Kelvin sign) to "k", U+00C9 (capital E acute) to U+00E9.  It    *)
(* leaves every other rune of the model's alphabet as it is, U+017F (long  *)
(* s, a lower-case letter) included.                                       *)
(***************************************************************************)
UpperRunes == <<"A","B","C","D","E","F","G","H","I","J","K","L","M",
                "N","O","P","Q","R","S","T","U","V","W","X","Y","Z",
                "U+0130", "U+212A", "U+00C9">>
LowerRunes == <<"a","b","c","d","e","f","g","h","i","j","k","l","m",
                "n","o","p","q","r","s","t","u","v","w","x","y","z",
                "i", "k", "U+00E9">>

\* The mapping as a function on the capitals.
LowerOf ==
    [c \in {UpperRunes[k] : k \in DOMAIN UpperRunes} |->
        LowerRunes[CHOOSE k \in DOMAIN UpperRunes : UpperRunes[k] = c]]

ToLowerRune(c) == IF c \in DOMAIN LowerOf THEN LowerOf[c] ELSE c

ToLower(s) == [k \in 1..Len(s) |-> ToLowerRune(s[k])]

(***************************************************************************)
(* The string literals of getPRStatusOverall's switch.                     *)
(***************************************************************************)
LitSucceeded == <<"s","u","c","c","e","e","d","e","d">>
LitSuccess == <<"s","u","c","c","e","s","s">>
LitPending == <<"p","e","n","d","i","n","g">>
LitInprogress == <<"i","n","p","r","o","g","r","e","s","s">>
LitIn_progress == <<"i","n","_","p","r","o","g","r","e","s","s">>
LitFailed == <<"f","a","i","l","e","d">>
LitFailure == <<"f","a","i","l","u","r","e">>
LitError == <<"e","r","r","o","r">>
LitNotapplicable == <<"n","o","t","a","p","p","l","i","c","a","b","l","e">>
LitNot_applicable == <<"n","o","t","_","a","p","p","l","i","c","a","b","l","e">>
LitNotset == <<"n","o","t","s","e","t">>

(***************************************************************************)
(* HTTP: the status codes the code compares against, and a response.       *)
(* A response is [transport, code, body, value]: transport is "error" when *)
(* client.Do returned an error; body is how the JSON body decodes:         *)
(* "exact" (only known fields), "extra" (valid JSON with fields the        *)
(* structs do not declare) or "malformed"; value is the body's "value"     *)
(* array.                                                                  *)
(***************************************************************************)
StatusUnauthorized == 401
StatusForbidden == 403
StatusOKFirst == 200
StatusOKLimit == 300

TransportError == [transport |-> "error", code |-> 0, body |-> "none", value |-> <<>>]

HTTPResponse(code, body, value) ==
    [transport |-> "ok", code |-> code, body |-> body, value |-> value]

Is2xx(code) == ~(code < StatusOKFirst \/ code >= StatusOKLimit)

\* json.NewDecoder(body).Decode(&v): unknown fields are ignored.
DecodesPermissive(resp) == resp.body \in {"exact", "extra"}

\* The same with dec.DisallowUnknownFields().
DecodesStrict(resp) == resp.body = "exact"

(***************************************************************************)
(* getPRStatusOverall: the classification loop and the verdict.            *)
(***************************************************************************)
InitFlags ==
    [anyPending |-> FALSE, anyFailed |-> FALSE, anyError |-> FALSE,
     anySucceeded |-> FALSE, allSucceededOrNA |-> TRUE]

\* Mutant: the success case also re-arms allSucceededOrNA.
ClassifyStepRearm(f, s) ==
    LET state == ToLower(s) IN
    CASE state \in {LitSucceeded, LitSuccess} ->
            [f EXCEPT !.anySucceeded = TRUE, !.allSucceededOrNA = TRUE]
      [] state \in {LitPending, LitInprogress, LitIn_progress} ->
            [f EXCEPT !.anyPending = TRUE, !.allSucceededOrNA = FALSE]
      [] state \in {LitFailed, LitFailure} ->
            [f EXCEPT !.anyFailed = TRUE, !.allSucceededOrNA = FALSE]
      [] state = LitError ->
            [f EXCEPT !.anyError = TRUE, !.allSucceededOrNA = FALSE]
      [] state \in {LitNotapplicable, LitNot_applicable, LitNotset} -> f
      [] OTHER -> [f EXCEPT !.allSucceededOrNA = FALSE]

\* One iteration of the loop: the switch on the lowered state.
ClassifyStep(f, s) ==
    LET state == ToLower(s) IN
    CASE state \in {LitSucceeded, LitSuccess} ->
            [f EXCEPT !.anySucceeded = TRUE]
      [] state \in {LitPending, LitInprogress, LitIn_progress} ->
            [f EXCEPT !.anyPending = TRUE, !.allSucceededOrNA = FALSE]
      [] state \in {LitFailed, LitFailure} ->
            [f EXCEPT !.anyFailed = TRUE, !.allSucceededOrNA = FALSE]
      [] state = LitError ->
            [f EXCEPT !.anyError = TRUE, !.allSucceededOrNA = FALSE]
      [] state \in {LitNotapplicable, LitNot_applicable, LitNotset} -> f
      [] OTHER -> [f EXCEPT !.allSucceededOrNA = FALSE]

\* for _, s := range sr.Value, from record k on.
RECURSIVE ClassifyFrom(_, _, _)
ClassifyFrom(value, k, f) ==
    IF k > Len(value) THEN f
    ELSE ClassifyFrom(value, k + 1, ClassifyStep(f, value[k]))

\* Mutant: pending is tested before failed/error.
StatusVerdictPendingFirst(f) ==
    IF f.anyPending THEN "In Progress"
    ELSE IF f.anyFailed \/ f.anyError THEN "Failed"
    ELSE IF f.anySucceeded /\ f.allSucceededOrNA THEN "Passed"
    ELSE "Unknown"

\* Mutant: "Passed" is decided by anySucceeded alone.
StatusVerdictAnySucceeded(f) ==
    IF f.anyFailed \/ f.anyError THEN "Failed"
    ELSE IF f.anyPending THEN "In Progress"
    ELSE IF f.anySucceeded THEN "Passed"
    ELSE "Unknown"

\* The if-chain after the loop.
StatusVerdict(f) ==
    IF f.anyFailed \/ f.anyError THEN "Failed"
    ELSE IF f.anyPending THEN "In Progress"
    ELSE IF f.anySucceeded /\ f.allSucceededOrNA THEN "Passed"
    ELSE "Unknown"

\* From the decoded list to the label.
StatusReduce(value) ==
    IF Len(value) = 0 THEN "No checks"
    ELSE StatusVerdict(ClassifyFrom(value, 1, InitFlags))

\* Mutant: a 401/403 is treated like any other non-2xx status.
StatusOfResponseNoAuthCase(resp) ==
    IF resp.transport # "ok" THEN "Unknown"
    ELSE IF ~Is2xx(resp.code) THEN "Unknown"
    ELSE IF ~DecodesPermissive(resp) THEN "Unknown"
    ELSE StatusReduce(resp.value)

\* getPRStatusOverall from the response of client.Do on.
StatusOfResponse(resp) ==
    IF resp.transport # "ok" THEN "Unknown"
    ELSE IF resp.code = StatusUnauthorized \/ resp.code = StatusForbidden
         THEN "Unauthorized"
    ELSE IF ~Is2xx(resp.code) THEN "Unknown"
    ELSE IF ~DecodesPermissive(resp) THEN "Unknown"
    ELSE StatusReduce(resp.value)

(***************************************************************************)
(* summarizeVotesTyped.                                                    *)
(***************************************************************************)
\* One iteration of the counting loop.
TallyStep(t, vote) ==
    IF vote > 0 THEN [t EXCEPT !.up = @ + 1]
    ELSE IF vote < 0 THEN [t EXCEPT !.down = @ + 1]
    ELSE [t EXCEPT !.wait = @ + 1]

RECURSIVE TallyFrom(_, _, _)
TallyFrom(rs, k, t) ==
    IF k > Len(rs) THEN t ELSE TallyFrom(rs, k + 1, TallyStep(t, rs[k]))

Tally(rs) == TallyFrom(rs, 1, [up |-> 0, down |-> 0, wait |-> 0])

\* fmt.Sprintf("%s%d/%d", sign, n, total)
FormatVotes(sign, n, total) == sign \o ToString(n) \o "/" \o ToString(total)

\* Mutant: approvals are tested before rejections.
VotesBranchUpFirst(rs) ==
    IF Len(rs) = 0 THEN "empty"
    ELSE LET t == Tally(rs) IN
         IF t.up > 0 THEN "up"
         ELSE IF t.down > 0 THEN "down"
         ELSE IF t.wait > 0 THEN "wait"
         ELSE "bare"

\* Which return statement summarizeVotesTyped leaves by.
VotesBranch(rs) ==
    IF Len(rs) = 0 THEN "empty"
    ELSE LET t == Tally(rs) IN
         IF t.down > 0 THEN "down"
         ELSE IF t.up > 0 THEN "up"
         ELSE IF t.wait > 0 THEN "wait"
         ELSE "bare"

summarizeVotesTyped(rs) ==
    LET t == Tally(rs)
        b == VotesBranch(rs)
    IN  CASE b = "empty" -> "0"
          [] b = "down" -> FormatVotes("-", t.down, Len(rs))
          [] b = "up" -> FormatVotes("+", t.up, Len(rs))
          [] b = "wait" -> FormatVotes("~", t.wait, Len(rs))
          [] OTHER -> ToString(Len(rs))

(***************************************************************************)
(* getConfig and failUsage.                                                *)
(***************************************************************************)
DefaultTop == 50
DefaultApiVer == "7.1-preview.1"
ExitOK == 0
ExitFatal == 1
ExitUsage == 2

MsgFlags == "--org and --project are required. Set LAZY_DEV_OPS_PAT env var for authentication."
MsgPat == "Environment variable LAZY_DEV_OPS_PAT is required for authentication."
UsageText == "\nUsage: lazydevops --org <org> --project <project> [--repo <repo>] [--top N]\nSet LAZY_DEV_OPS_PAT environment variable with a Personal Access Token (Code: Read)."

\* Mutant: the token is not checked.
ConfigErrorFlagsOnly(a) ==
    IF a.Org = "" \/ a.Project = "" THEN MsgFlags ELSE ""

\* The message getConfig hands to failUsage ("" when it returns a config).
ConfigError(a) ==
    IF a.Org = "" \/ a.Project = "" THEN MsgFlags
    ELSE IF a.Pat = "" THEN MsgPat
    ELSE ""

\* What failUsage writes to standard error before os.Exit(2): one element
\* per Fprintln, without the newline Fprintln ends it with.
UsageLines(msg) == <<"Error: " \o msg, UsageText>>

(***************************************************************************)
(* flag.Parse (flag.CommandLine, ExitOnError) on the arguments beside      *)
(* --org and --project: "" (none), "-h", an undefined flag or a --top      *)
(* value that is no integer.  A result is [exit, code, out]: whether Parse *)
(* ends the process, with which code, after writing which text.            *)
(***************************************************************************)
FlagDefaults == "  -api-version string\n    \tAzure DevOps API version (default \"7.1-preview.1\")\n  -org string\n    \tAzure DevOps organization (e.g., myorg)\n  -project string\n    \tAzure DevOps project name\n  -top int\n    \tMax number of PRs to fetch (default 50)"

FlagUsage == <<"Usage of lazydevops:", FlagDefaults>>

FlagParse(extra) ==
    CASE extra = "-h" ->
            [exit |-> TRUE, code |-> ExitOK, out |-> FlagUsage]
      [] extra = "--repo my-repo" ->
            [exit |-> TRUE, code |-> ExitUsage,
             out |-> <<"flag provided but not defined: -repo">> \o FlagUsage]
      [] extra = "--top abc" ->
            [exit |-> TRUE, code |-> ExitUsage,
             out |-> <<"invalid value \"abc\" for flag -top: parse error">> \o FlagUsage]
      [] OTHER -> [exit |-> FALSE, code |-> ExitOK, out |-> <<>>]

(***************************************************************************)
(* The two requests.  The Authorization header is Basic with an empty user *)
(* name and the token as password.                                         *)
(***************************************************************************)
AuthHeaders(c) ==
    [Authorization |-> [scheme |-> "Basic", user |-> "", password |-> c.Pat],
     Accept |-> "application/json"]

ListRequest(c) ==
    [method |-> "GET",
     url |-> [endpoint |-> "pullrequests", org |-> c.Org, project |-> c.Project,
              status |-> "active",
              top |-> IF c.Top > 0 THEN <<c.Top>> ELSE <<>>,
              apiVersion |-> c.ApiVer],
     header |-> AuthHeaders(c)]

\* req2: a new GET of the same endpoint with a clone of req's header.
RetryRequest(req) ==
    [method |-> "GET", url |-> req.url, header |-> req.header]

StatusRequest(c, pr) ==
    [method |-> "GET",
     url |-> [endpoint |-> "statuses", org |-> c.Org, project |-> c.Project,
              repositoryId |-> pr.RepositoryID, pullRequestId |-> pr.PullRequestID,
              apiVersion |-> c.ApiVer],
     header |-> AuthHeaders(c)]

ResponseHead(resp) == [transport |-> resp.transport, code |-> resp.code, body |-> resp.body]

(***************************************************************************)
(* fetchActivePRs: what the first response leads to, and what the retry's  *)
(* response leads to.  A result is [kind, prs, err] with kind "return" or  *)
(* "retry".                                                                *)
(***************************************************************************)
ErrTransport == "transport error"
ErrAuth == "authentication failed (401/403). Ensure LAZY_DEV_OPS_PAT is valid and has Code (Read) scope"
ErrStatus == "request failed"
ErrDecode == "decode error"

Failure(e) == [kind |-> "return", prs |-> <<>>, err |-> e]
Success(v) == [kind |-> "return", prs |-> v, err |-> ""]

FetchFirstResult(resp) ==
    IF resp.transport # "ok" THEN Failure(ErrTransport)
    ELSE IF resp.code = StatusUnauthorized \/ resp.code = StatusForbidden
         THEN Failure(ErrAuth)
    ELSE IF ~Is2xx(resp.code) THEN Failure(ErrStatus)
    ELSE IF DecodesStrict(resp) THEN Success(resp.value)
    ELSE [kind |-> "retry", prs |-> <<>>, err |-> ""]

\* Mutant: the retry returns what the strict decode left of the first body.
FetchRetryResultFirstBody(resp1, resp2) ==
    IF resp2.transport # "ok" THEN Failure(ErrTransport)
    ELSE IF ~Is2xx(resp2.code) THEN Failure(ErrStatus)
    ELSE IF ~DecodesPermissive(resp2) THEN Failure(ErrDecode)
    ELSE Success(resp1.value)

\* resp1 is the first response (its strict decode failed), resp2 the retry's.
FetchRetryResult(resp1, resp2) ==
    IF resp2.transport # "ok" THEN Failure(ErrTransport)
    ELSE IF ~Is2xx(resp2.code) THEN Failure(ErrStatus)
    ELSE IF ~DecodesPermissive(resp2) THEN Failure(ErrDecode)
    ELSE Success(resp2.value)

(***************************************************************************)
(* main: the error check and the sort.                                     *)
(***************************************************************************)
\* Mutant: the error fetchActivePRs returned is ignored.
FetchFailedNever(e) == FALSE

\* if err != nil
FetchFailed(e) == e # ""

\* Mutant: oldest first.
LessOldestFirst(a, b) == a.CreationDate < b.CreationDate

\* The less function handed to sort.Slice: prs[i].CreationDate.After(prs[j].CreationDate).
Less(a, b) == a.CreationDate > b.CreationDate

(***************************************************************************)
(* sort.Slice(prs, less), as the sort package of the Go toolchain the       *)
(* README requires (1.21+) implements it: pdqsort_func over the slice.  A   *)
(* Go slice indexes from 0; data[i] is the sequence's element i + 1.        *)
(***************************************************************************)
\* data.Swap(i, j)
SwapAt(d, i, j) == [d EXCEPT ![i + 1] = d[j + 1], ![j + 1] = d[i + 1]]

\* data.Less(i, j)
LessAt(d, i, j) == Less(d[i + 1], d[j + 1])

\* for j := i; j > a && data.Less(j, j-1); j-- { data.Swap(j, j-1) }
RECURSIVE InsertionShift(_, _, _)
InsertionShift(d, a, j) ==
    IF j > a /\ LessAt(d, j, j - 1)
    THEN InsertionShift(SwapAt(d, j, j - 1), a, j - 1)
    ELSE d

\* for i := a + 1; i < b; i++ { ... }
RECURSIVE InsertionSortFrom(_, _, _, _)
InsertionSortFrom(d, a, b, i) ==
    IF i < b THEN InsertionSortFrom(InsertionShift(d, a, i), a, b, i + 1) ELSE d

insertionSort_func(d, a, b) == InsertionSortFrom(d, a, b, a + 1)

\* siftDown_func, root starting at lo.
RECURSIVE siftDown_func(_, _, _, _)
siftDown_func(d, lo, hi, first) ==
    LET child0 == 2 * lo + 1 IN
    IF child0 >= hi THEN d
    ELSE LET child == IF child0 + 1 < hi /\ LessAt(d, first + child0, first + child0 + 1)
                      THEN child0 + 1 ELSE child0
         IN  IF ~LessAt(d, first + lo, first + child) THEN d
             ELSE siftDown_func(SwapAt(d, first + lo, first + child), child, hi, first)

\* for i := (hi - 1) / 2; i >= 0; i-- { siftDown_func(data, i, hi, first) }
RECURSIVE HeapBuild(_, _, _, _)
HeapBuild(d, i, hi, first) ==
    IF i >= 0 THEN HeapBuild(siftDown_func(d, i, hi, first), i - 1, hi, first) ELSE d

\* for i := hi - 1; i >= 0; i-- { data.Swap(first, first+i); siftDown_func(data, lo, i, first) }
RECURSIVE HeapPop(_, _, _)
HeapPop(d, i, first) ==
    IF i >= 0 THEN HeapPop(siftDown_func(SwapAt(d, first, first + i), 0, i, first), i - 1, first)
    ELSE d

heapSort_func(d, a, b) == HeapPop(HeapBuild(d, (b - a - 1) \div 2, b - a, a), b - a - 1, a)

\* order2_func: <<x, y, swaps>> with data[x] not after data[y].
order2_func(d, a, b, swaps) ==
    IF LessAt(d, b, a) THEN <<b, a, swaps + 1>> ELSE <<a, b, swaps>>

\* median_func: <<index of the median of data[a], data[b], data[c], swaps>>.
median_func(d, a, b, c, swaps) ==
    LET s1 == order2_func(d, a, b, swaps)
        s2 == order2_func(d, s1[2], c, s1[3])
        s3 == order2_func(d, s1[1], s2[1], s2[3])
    IN  <<s3[2], s3[3]>>

medianAdjacent_func(d, a, swaps) == median_func(d, a - 1, a, a + 1, swaps)

\* choosePivot_func: the pivot's index and the hint.
choosePivot_func(d, a, b) ==
    LET shortestNinther == 50
        maxSwaps == 4 * 3
        l == b - a
        i == a + (l \div 4) * 1
        j == a + (l \div 4) * 2
        k == a + (l \div 4) * 3
        mi == IF l >= shortestNinther THEN medianAdjacent_func(d, i, 0) ELSE <<i, 0>>
        mj == IF l >= shortestNinther THEN medianAdjacent_func(d, j, mi[2]) ELSE <<j, mi[2]>>
        mk == IF l >= shortestNinther THEN medianAdjacent_func(d, k, mj[2]) ELSE <<k, mj[2]>>
        m  == IF l >= 8 THEN median_func(d, mi[1], mj[1], mk[1], mk[2]) ELSE <<j, 0>>
    IN  [pivot |-> m[1],
         hint |-> IF m[2] = 0 THEN "increasingHint"
                  ELSE IF m[2] = maxSwaps THEN "decreasingHint"
                  ELSE "unknownHint"]

\* for i < j { data.Swap(i, j); i++; j-- }
RECURSIVE ReverseFrom(_, _, _)
ReverseFrom(d, i, j) == IF i < j THEN ReverseFrom(SwapAt(d, i, j), i + 1, j - 1) ELSE d

reverseRange_func(d, a, b) == ReverseFrom(d, a, b - 1)

\* for i < b && !data.Less(i, i-1) { i++ }
RECURSIVE SkipOrdered(_, _, _)
SkipOrdered(d, i, b) ==
    IF i < b /\ ~LessAt(d, i, i - 1) THEN SkipOrdered(d, i + 1, b) ELSE i

\* for j := i - 1; j >= 1; j-- { if !data.Less(j, j-1) { break }; data.Swap(j, j-1) }
RECURSIVE ShiftSmaller(_, _)
ShiftSmaller(d, j) ==
    IF j >= 1 /\ LessAt(d, j, j - 1) THEN ShiftSmaller(SwapAt(d, j, j - 1), j - 1) ELSE d

\* for j := i + 1; j < b; j++ { if !data.Less(j, j-1) { break }; data.Swap(j, j-1) }
RECURSIVE ShiftGreater(_, _, _)
ShiftGreater(d, j, b) ==
    IF j < b /\ LessAt(d, j, j - 1) THEN ShiftGreater(SwapAt(d, j, j - 1), j + 1, b) ELSE d

\* The loop of partialInsertionSort_func from its step-th round.
RECURSIVE PartialInsertionFrom(_, _, _, _, _)
PartialInsertionFrom(d, a, b, i0, step) ==
    LET maxSteps == 5
        shortestShifting == 50
        i == SkipOrdered(d, i0, b)
    IN  IF step >= maxSteps THEN [data |-> d, sorted |-> FALSE]
        ELSE IF i = b THEN [data |-> d, sorted |-> TRUE]
        ELSE IF b - a < shortestShifting THEN [data |-> d, sorted |-> FALSE]
        ELSE LET d1 == SwapAt(d, i, i - 1)
                 d2 == IF i - a >= 2 THEN ShiftSmaller(d1, i - 1) ELSE d1
                 d3 == IF b - i >= 2 THEN ShiftGreater(d2, i + 1, b) ELSE d2
             IN  PartialInsertionFrom(d3, a, b, i, step + 1)

partialInsertionSort_func(d, a, b) == PartialInsertionFrom(d, a, b, a + 1, 0)

\* for i <= j && data.Less(i, a) { i++ }
RECURSIVE ScanUp(_, _, _, _)
ScanUp(d, i, j, a) == IF i <= j /\ LessAt(d, i, a) THEN ScanUp(d, i + 1, j, a) ELSE i

\* for i <= j && !data.Less(j, a) { j-- }
RECURSIVE ScanDown(_, _, _, _)
ScanDown(d, i, j, a) == IF i <= j /\ ~LessAt(d, j, a) THEN ScanDown(d, i, j - 1, a) ELSE j

\* The second loop of partition_func.
RECURSIVE PartitionLoop(_, _, _, _)
PartitionLoop(d, i0, j0, a) ==
    LET i == ScanUp(d, i0, j0, a)
        j == ScanDown(d, i, j0, a)
    IN  IF i > j THEN [data |-> d, j |-> j]
        ELSE PartitionLoop(SwapAt(d, i, j), i + 1, j - 1, a)

\* partition_func: the slice, the pivot's new index, and alreadyPartitioned.
partition_func(d, a, b, pivot) ==
    LET d0 == SwapAt(d, a, pivot)
        i == ScanUp(d0, a + 1, b - 1, a)
        j == ScanDown(d0, i, b - 1, a)
    IN  IF i > j
        THEN [data |-> SwapAt(d0, j, a), mid |-> j, already |-> TRUE]
        ELSE LET r == PartitionLoop(SwapAt(d0, i, j), i + 1, j - 1, a)
             IN  [data |-> SwapAt(r.data, r.j, a), mid |-> r.j, already |-> FALSE]

\* for i <= j && !data.Less(a, i) { i++ }
RECURSIVE ScanUpEqual(_, _, _, _)
ScanUpEqual(d, i, j, a) == IF i <= j /\ ~LessAt(d, a, i) THEN ScanUpEqual(d, i + 1, j, a) ELSE i

\* for i <= j && data.Less(a, j) { j-- }
RECURSIVE ScanDownEqual(_, _, _, _)
ScanDownEqual(d, i, j, a) == IF i <= j /\ LessAt(d, a, j) THEN ScanDownEqual(d, i, j - 1, a) ELSE j

\* The loop of partitionEqual_func.
RECURSIVE PartitionEqualLoop(_, _, _, _)
PartitionEqualLoop(d, i0, j0, a) ==
    LET i == ScanUpEqual(d, i0, j0, a)
        j == ScanDownEqual(d, i, j0, a)
    IN  IF i > j THEN [data |-> d, mid |-> i]
        ELSE PartitionEqualLoop(SwapAt(d, i, j), i + 1, j - 1, a)

partitionEqual_func(d, a, b, pivot) == PartitionEqualLoop(SwapAt(d, a, pivot), a + 1, b - 1, a)

\* bits.Len(uint(n))
RECURSIVE BitsLen(_)
BitsLen(n) == IF n = 0 THEN 0 ELSE 1 + BitsLen(n \div 2)

\* A uint64 as its 64 bits, bit 0 the lowest; xorshift(length).
Uint64(n) == [k \in 0..63 |-> IF k > 30 THEN FALSE ELSE (n \div (2 ^ k)) % 2 = 1]
Xor64(x, y) == [k \in 0..63 |-> x[k] # y[k]]
Shl64(x, s) == [k \in 0..63 |-> IF k >= s THEN x[k - s] ELSE FALSE]
Shr64(x, s) == [k \in 0..63 |-> IF k + s <= 63 THEN x[k + s] ELSE FALSE]

\* (*xorshift).Next
XorshiftNext(r) ==
    LET r1 == Xor64(r, Shl64(r, 13))
        r2 == Xor64(r1, Shr64(r1, 7))
    IN  Xor64(r2, Shl64(r2, 17))

\* int(uint(x) & (1<<shift - 1))
RECURSIVE LowBits(_, _)
LowBits(x, shift) ==
    IF shift = 0 THEN 0
    ELSE LowBits(x, shift - 1) + (IF x[shift - 1] THEN 2 ^ (shift - 1) ELSE 0)

\* for i := 0; i < 3; i++ { ... data.Swap(idx-1+i, a+other) }
RECURSIVE BreakFrom(_, _, _, _, _, _)
BreakFrom(d, a, length, idx, random, i) ==
    LET next == XorshiftNext(random)
        masked == LowBits(next, BitsLen(length))
        other == IF masked >= length THEN masked - length ELSE masked
    IN  IF i < 3 THEN BreakFrom(SwapAt(d, idx - 1 + i, a + other), a, length, idx, next, i + 1)
        ELSE d

breakPatterns_func(d, a, b) ==
    LET length == b - a
        idx == a + (length \div 4) * 2 - 1
    IN  IF length >= 8 THEN BreakFrom(d, a, length, idx, Uint64(length), 0) ELSE d

\* pdqsort_func: one round of its loop, in stages that are each handed the
\* loop's variables and what the stage before computed.
RECURSIVE PdqLoop(_, _, _, _, _, _)

\* After partition_func returned p: leftLen, rightLen and balanceThreshold,
\* the recursion on the shorter side, then the loop on the longer one.
PdqHalves(p, a, b, limit, length) ==
    LET leftLen == p.mid - a
        rightLen == b - p.mid
        balanceThreshold == length \div 8
    IN  IF leftLen < rightLen
        THEN PdqLoop(PdqLoop(p.data, a, p.mid, limit, TRUE, TRUE),
                     p.mid + 1, b, limit, leftLen >= balanceThreshold, p.already)
        ELSE PdqLoop(PdqLoop(p.data, p.mid + 1, b, limit, TRUE, TRUE),
                     a, p.mid, limit, rightLen >= balanceThreshold, p.already)

\* After partitionEqual_func returned pe: a = mid; continue.
PdqEqual(pe, b, limit, wasBalanced, wasPartitioned) ==
    PdqLoop(pe.data, pe.mid, b, limit, wasBalanced, wasPartitioned)

\* if a > 0 && !data.Less(a-1, pivot), and the partition otherwise.
PdqPartition(d, a, b, limit, wasBalanced, wasPartitioned, pivot) ==
    IF a > 0 /\ ~LessAt(d, a - 1, pivot)
    THEN PdqEqual(partitionEqual_func(d, a, b, pivot), b, limit, wasBalanced, wasPartitioned)
    ELSE PdqHalves(partition_func(d, a, b, pivot), a, b, limit, b - a)

\* After partialInsertionSort_func returned pi: return if it sorted the slice.
PdqPartialDone(pi, a, b, limit, wasBalanced, wasPartitioned, pivot) ==
    IF pi.sorted THEN pi.data
    ELSE PdqPartition(pi.data, a, b, limit, wasBalanced, wasPartitioned, pivot)

\* if wasBalanced && wasPartitioned && hint == increasingHint
PdqPartial(d, a, b, limit, wasBalanced, wasPartitioned, pivot, hint) ==
    IF wasBalanced /\ wasPartitioned /\ hint = "increasingHint"
    THEN PdqPartialDone(partialInsertionSort_func(d, a, b), a, b, limit,
                        wasBalanced, wasPartitioned, pivot)
    ELSE PdqPartition(d, a, b, limit, wasBalanced, wasPartitioned, pivot)

\* After choosePivot_func returned cp: if hint == decreasingHint, the reversal.
PdqPivot(d, a, b, limit, wasBalanced, wasPartitioned, cp) ==
    IF cp.hint = "decreasingHint"
    THEN PdqPartial(reverseRange_func(d, a, b), a, b, limit, wasBalanced, wasPartitioned,
                    (b - 1) - (cp.pivot - a), "increasingHint")
    ELSE PdqPartial(d, a, b, limit, wasBalanced, wasPartitioned, cp.pivot, cp.hint)

\* pivot, hint := choosePivot_func(data, a, b)
PdqChoose(d, a, b, limit, wasBalanced, wasPartitioned) ==
    PdqPivot(d, a, b, limit, wasBalanced, wasPartitioned, choosePivot_func(d, a, b))

\* The head of the loop: insertion sort for a short slice, heap sort when
\* limit ran out, breakPatterns_func after an unbalanced partition.
PdqLoop(d, a, b, limit, wasBalanced, wasPartitioned) ==
    LET maxInsertion == 12 IN
    IF b - a <= maxInsertion THEN insertionSort_func(d, a, b)
    ELSE IF limit = 0 THEN heapSort_func(d, a, b)
    ELSE IF ~wasBalanced
    THEN PdqChoose(breakPatterns_func(d, a, b), a, b, limit - 1, wasBalanced, wasPartitioned)
    ELSE PdqChoose(d, a, b, limit, wasBalanced, wasPartitioned)

pdqsort_func(d, a, b, limit) == PdqLoop(d, a, b, limit, TRUE, TRUE)

\* sort.Slice(prs, less): the slice as the call leaves it.
SortSlice(list) == pdqsort_func(list, 0, Len(list), BitsLen(Len(list)))

(***************************************************************************)
(* printTable.                                                             *)
(***************************************************************************)
HeaderRow == <<"PR", "Title", "Author", "Repo", "Source->Target", "Votes", "Checks", "Created", "URL">>

\* Mutant: every iteration sees the slice's last element.
LoopItemLast(list, k) == list[Len(list)]

\* The pull request of the loop's k-th iteration.
LoopItem(list, k) == list[k]

\* A row as the writer prints it: the cells in column order.
RenderRow(r) == <<ToString(r.id), r.votes, r.status>>

\* The row of one pull request, given the response of its status call.
TableRow(pr, resp) ==
    [id |-> pr.PullRequestID,
     votes |-> summarizeVotesTyped(pr.Reviewers),
     status |-> StatusOfResponse(resp)]

(***************************************************************************)
(* Inputs: check states as the service and its variants spell them, and    *)
(* the votes Azure DevOps records.                                         *)
(***************************************************************************)
InSucceeded == <<"s","u","c","c","e","e","d","e","d">>
InSuccessCap == <<"S","u","c","c","e","s","s">>
InPending == <<"p","e","n","d","i","n","g">>
InInProgress == <<"i","n","P","r","o","g","r","e","s","s">>
InIN_PROGRESS == <<"I","N","_","P","R","O","G","R","E","S","S">>
InFailed == <<"f","a","i","l","e","d">>
InFailureCap == <<"F","a","i","l","u","r","e">>
InERROR == <<"E","R","R","O","R">>
InNotApplicable == <<"n","o","t","A","p","p","l","i","c","a","b","l","e">>
InNot_applicable == <<"n","o","t","_","a","p","p","l","i","c","a","b","l","e">>
InNotSet == <<"n","o","t","S","e","t">>
InQueued == <<"q","u","e","u","e","d">>
InBlank == <<>>
InFAILEDDotted == <<"F","A","U+0130","L","E","D">>
InLongSuccess == <<"U+017F","u","c","c","e","s","s">>
InOKelvin == <<"O","U+212A">>

StateTexts ==
    {InSucceeded, InSuccessCap, InPending, InInProgress, InIN_PROGRESS, InFailed,
     InFailureCap, InERROR, InNotApplicable, InNot_applicable, InNotSet, InQueued,
     InBlank, InFAILEDDotted, InLongSuccess, InOKelvin}

VoteValues == {-10, -5, 0, 5, 10}

SeqsUpTo(S, n) == UNION {[1..k -> S] : k \in 0..n}

\* The status codes the inputs use: both ends of the 2xx range, its two
\* neighbours, the two authorization codes and a server error.
AllCodes == {199, 200, 299, 300, 401, 403, 500}

\* Every response of the status endpoint with up to MaxStatuses records.
StatusInputs ==
    {TransportError}
    \cup {HTTPResponse(c, "none", <<>>) : c \in {c \in AllCodes : ~Is2xx(c)}}
    \cup {HTTPResponse(c, "malformed", <<>>) : c \in {c \in AllCodes : Is2xx(c)}}
    \cup {HTTPResponse(200, "exact", v) : v \in SeqsUpTo(StateTexts, MaxStatuses)}
    \cup {HTTPResponse(299, "extra", v) : v \in SeqsUpTo(StateTexts, 1)}

NotYet == "(not yet)"
NoCfg == [Org |-> "", Project |-> "", Pat |-> "", Top |-> 0, ApiVer |-> ""]
NoResp == [transport |-> "none", code |-> 0, body |-> "none", value |-> <<>>]

\* The state of main() while another specification runs.
MainIdle ==
    /\ pc = "idle"
    /\ args = NoCfg
    /\ cfg = NoCfg
    /\ requests = <<>>
    /\ heads = <<>>
    /\ listResp = NoResp
    /\ fetched = <<>>
    /\ prs = <<>>
    /\ err = ""
    /\ statusResps = <<>>
    /\ rows = <<>>
    /\ stdout = <<>>
    /\ stderr = <<>>
    /\ exitCode = 0

(***************************************************************************)
(* SpecStatus: getPRStatusOverall applied to one response.                 *)
(***************************************************************************)
InitStatus ==
    /\ MainIdle
    /\ sresp \in StatusInputs
    /\ slabel = NotYet
    /\ reviewers = <<>>
    /\ votes = NotYet

CallStatus ==
    /\ slabel = NotYet
    /\ slabel' = StatusOfResponse(sresp)
    /\ UNCHANGED <<mainVars, sresp, reviewers, votes>>

NextStatus == CallStatus

SpecStatus == InitStatus /\ [][NextStatus]_vars

(***************************************************************************)
(* SpecVotes: summarizeVotesTyped applied to one reviewer list (each       *)
(* reviewer is its Vote; DisplayName is not read).                         *)
(***************************************************************************)
InitVotes ==
    /\ MainIdle
    /\ sresp = NoResp
    /\ slabel = NotYet
    /\ reviewers \in SeqsUpTo(VoteValues, MaxReviewers)
    /\ votes = NotYet

CallVotes ==
    /\ votes = NotYet
    /\ votes' = summarizeVotesTyped(reviewers)
    /\ UNCHANGED <<mainVars, sresp, slabel, reviewers>>

NextVotes == CallVotes

SpecVotes == InitVotes /\ [][NextVotes]_vars

(***************************************************************************)
(* Spec: one run of main().  Inputs of the run: the command line and the   *)
(* environment, and the response to each request.                          *)
(***************************************************************************)
ArgInputs ==
    [Org : {"", "myorg"}, Project : {"", "MyProject"}, Pat : {"", "s3cret"},
     Top : {DefaultTop}, ApiVer : {DefaultApiVer},
     Extra : {"", "-h", "--repo my-repo", "--top abc"}]

CreationDates == {1, 2}

\* The reviewers of the k-th pull request of a response.
ReviewersAt(k) == IF k % 2 = 1 THEN <<10, -5>> ELSE <<0>>

\* A list response's value: one pull request per creation date of d,
\* numbered in fetch order.
PRList(d) ==
    [k \in 1..Len(d) |->
        [PullRequestID |-> k, RepositoryID |-> "repo-1",
         CreationDate |-> d[k], Reviewers |-> ReviewersAt(k)]]

\* Up to MaxPRs pull requests with every assignment of creation dates.
PRLists == {PRList(d) : d \in SeqsUpTo(CreationDates, MaxPRs)}

FailedResponses ==
    {TransportError}
    \cup {HTTPResponse(c, "none", <<>>) : c \in {401, 403, 500}}
    \cup {HTTPResponse(200, "malformed", <<>>)}

ListResponses ==
    FailedResponses
    \cup {HTTPResponse(200, b, v) : b \in {"exact", "extra"}, v \in PRLists}

StatusSamples ==
    {<<>>, <<InSucceeded>>, <<InSucceeded, InFailed>>, <<InNotApplicable, InPending>>}

StatusResponses ==
    FailedResponses
    \cup {HTTPResponse(200, "exact", v) : v \in StatusSamples}

Init ==
    /\ pc = "getConfig"
    /\ args \in ArgInputs
    /\ cfg = NoCfg
    /\ requests = <<>>
    /\ heads = <<>>
    /\ listResp = NoResp
    /\ fetched = <<>>
    /\ prs = <<>>
    /\ err = ""
    /\ statusResps = <<>>
    /\ rows = <<>>
    /\ stdout = <<>>
    /\ stderr = <<>>
    /\ exitCode = 0
    /\ sresp = NoResp
    /\ slabel = NotYet
    /\ reviewers = <<>>
    /\ votes = NotYet

pureVars == <<sresp, slabel, reviewers, votes>>

\* getConfig: flag.Parse, which may end the process itself, then the checks
\* with failUsage when they reject the invocation.
GetConfig ==
    /\ pc = "getConfig"
    /\ IF FlagParse(args.Extra).exit
       THEN /\ stderr' = stderr \o FlagParse(args.Extra).out
            /\ exitCode' = FlagParse(args.Extra).code
            /\ pc' = "exited"
            /\ cfg' = cfg
       ELSE IF ConfigError(args) # ""
       THEN /\ stderr' = stderr \o UsageLines(ConfigError(args))
            /\ exitCode' = ExitUsage
            /\ pc' = "exited"
            /\ cfg' = cfg
       ELSE /\ cfg' = [Org |-> args.Org, Project |-> args.Project, Pat |-> args.Pat,
                       Top |-> args.Top, ApiVer |-> args.ApiVer]
            /\ pc' = "fetch"
            /\ UNCHANGED <<stderr, exitCode>>
    /\ UNCHANGED <<args, requests, heads, listResp, fetched, prs, err, statusResps,
                   rows, stdout, pureVars>>

\* fetchActivePRs up to the strict decode of the first response, the
\* request answered by resp.
FetchFirstWith(resp) ==
    LET res == FetchFirstResult(resp) IN
    /\ pc = "fetch"
    /\ requests' = Append(requests, ListRequest(cfg))
    /\ heads' = Append(heads, ResponseHead(resp))
    /\ listResp' = resp
    /\ IF res.kind = "retry"
       THEN pc' = "retry" /\ UNCHANGED <<fetched, prs, err>>
       ELSE /\ pc' = "main"
            /\ fetched' = res.prs
            /\ prs' = res.prs
            /\ err' = res.err
    /\ UNCHANGED <<args, cfg, statusResps, rows, stdout, stderr, exitCode, pureVars>>

FetchFirst == \E resp \in ListResponses : FetchFirstWith(resp)

\* fetchActivePRs after a failed strict decode: the second request.
FetchRetry ==
    /\ pc = "retry"
    /\ \E resp \in ListResponses :
        LET res == FetchRetryResult(listResp, resp) IN
        /\ requests' = Append(requests, RetryRequest(requests[Len(requests)]))
        /\ heads' = Append(heads, ResponseHead(resp))
        /\ listResp' = resp
        /\ pc' = "main"
        /\ fetched' = res.prs
        /\ prs' = res.prs
        /\ err' = res.err
    /\ UNCHANGED <<args, cfg, statusResps, rows, stdout, stderr, exitCode, pureVars>>

\* main after fetchActivePRs returned: log.Fatalln, the empty case, or the
\* sort and the start of printTable.
MainAfterFetch ==
    /\ pc = "main"
    /\ IF FetchFailed(err)
       THEN /\ stderr' = Append(stderr, "Error:  " \o err)
            /\ exitCode' = ExitFatal
            /\ pc' = "exited"
            /\ UNCHANGED <<prs, stdout>>
       ELSE IF Len(prs) = 0
       THEN /\ stdout' = Append(stdout, <<"No active pull requests found.">>)
            /\ exitCode' = ExitOK
            /\ pc' = "exited"
            /\ UNCHANGED <<prs, stderr>>
       ELSE /\ prs' = SortSlice(prs)
            /\ pc' = "rows"
            /\ UNCHANGED <<stdout, stderr, exitCode>>
    /\ UNCHANGED <<args, cfg, requests, heads, listResp, fetched, err, statusResps,
                   rows, pureVars>>

\* One iteration of printTable's loop: the status call, answered by resp,
\* and the appended row.
StatusCallWith(resp) ==
    LET pr == LoopItem(prs, Len(rows) + 1) IN
    /\ pc = "rows"
    /\ Len(rows) < Len(prs)
    /\ requests' = Append(requests, StatusRequest(cfg, pr))
    /\ heads' = Append(heads, ResponseHead(resp))
    /\ statusResps' = Append(statusResps, resp)
    /\ rows' = Append(rows, TableRow(pr, resp))
    /\ UNCHANGED <<pc, args, cfg, listResp, fetched, prs, err, stdout, stderr,
                   exitCode, pureVars>>

StatusCall == \E resp \in StatusResponses : StatusCallWith(resp)

\* w.Render() after the loop, and main's return.
Render ==
    /\ pc = "rows"
    /\ Len(rows) = Len(prs)
    /\ stdout' = stdout \o <<HeaderRow>> \o [k \in 1..Len(rows) |-> RenderRow(rows[k])]
    /\ exitCode' = ExitOK
    /\ pc' = "exited"
    /\ UNCHANGED <<args, cfg, requests, heads, listResp, fetched, prs, err,
                   statusResps, rows, stderr, pureVars>>

Next ==
    \/ GetConfig
    \/ FetchFirst
    \/ FetchRetry
    \/ MainAfterFetch
    \/ StatusCall
    \/ Render

Spec == Init /\ [][Next]_vars

(***************************************************************************)
(* SpecSort: a run of main() with a valid command line in which the list   *)
(* request is answered at once by up to MaxSortLen pull requests and every *)
(* status call by an empty list of statuses.                               *)
(***************************************************************************)
SortArgs ==
    [Org |-> "myorg", Project |-> "MyProject", Pat |-> "s3cret",
     Top |-> DefaultTop, ApiVer |-> DefaultApiVer, Extra |-> ""]

NoStatuses == HTTPResponse(200, "exact", <<>>)

InitSort ==
    /\ pc = "getConfig"
    /\ args = SortArgs
    /\ cfg = NoCfg
    /\ requests = <<>>
    /\ heads = <<>>
    /\ listResp = NoResp
    /\ fetched = <<>>
    /\ prs = <<>>
    /\ err = ""
    /\ statusResps = <<>>
    /\ rows = <<>>
    /\ stdout = <<>>
    /\ stderr = <<>>
    /\ exitCode = 0
    /\ sresp = NoResp
    /\ slabel = NotYet
    /\ reviewers = <<>>
    /\ votes = NotYet

\* The list request answered by n pull requests, n up to MaxSortLen, with
\* every assignment of creation dates.
SortFetchFirst ==
    /\ pc = "fetch"
    /\ \E n \in 0..MaxSortLen : \E d \in [1..n -> CreationDates] :
        FetchFirstWith(HTTPResponse(200, "exact", PRList(d)))

SortStatusCall == StatusCallWith(NoStatuses)

NextSort ==
    \/ GetConfig
    \/ SortFetchFirst
    \/ MainAfterFetch
    \/ SortStatusCall
    \/ Render

SpecSort == InitSort /\ [][NextSort]_vars

(***************************************************************************)
(* Claims about the status reduction (SpecStatus).  The kinds of the       *)
(* specification's table are stated twice, each with a comparison of its   *)
(* own: caseless matching (Unicode simple case folding, as                 *)
(* strings.EqualFold compares), and equality after lower-casing.           *)
(***************************************************************************)
\* The case-folding orbits of the model's alphabet: the ASCII letter pairs,
\* with U+212A in k's orbit and U+017F in s's; U+0130 folds to itself only.
FoldOrbits ==
    {{UpperRunes[k], LowerRunes[k]} : k \in 1..26}
    \cup {{"K", "k", "U+212A"}, {"S", "s", "U+017F"}, {"U+00C9", "U+00E9"}}

SameLetter(c, d) == c = d \/ \E o \in FoldOrbits : c \in o /\ d \in o

EqualFold(a, b) ==
    Len(a) = Len(b) /\ \A k \in 1..Len(a) : SameLetter(a[k], b[k])

\* The lower-case mapping as pairs <<capital, its lower case>>.
CasePairs ==
    {<<UpperRunes[k], LowerRunes[k]>> : k \in 1..26}
    \cup {<<"U+0130", "i">>, <<"U+212A", "k">>, <<"U+00C9", "U+00E9">>}

LowersTo(c, l) ==
    \/ <<c, l>> \in CasePairs
    \/ c = l /\ ~\E pr \in CasePairs : pr[1] = c

EqualLowered(a, b) ==
    Len(a) = Len(b) /\ \A k \in 1..Len(a) : LowersTo(a[k], b[k])

SucceededLits == {LitSucceeded, LitSuccess}
PendingLits == {LitPending, LitInprogress, LitIn_progress}
FailedLits == {LitFailed, LitFailure}
ErrorLits == {LitError}
NeutralLits == {LitNotapplicable, LitNot_applicable, LitNotset}

FoldIn(s, lits) == \E l \in lits : EqualFold(s, l)
LoweredIn(s, lits) == \E l \in lits : EqualLowered(s, l)

FailedLike(s) == FoldIn(s, FailedLits)
ErrorLike(s) == FoldIn(s, ErrorLits)

Fetched(resp) == resp.transport = "ok" /\ Is2xx(resp.code) /\ DecodesPermissive(resp)

Some(v, P(_)) == \E k \in 1..Len(v) : P(v[k])

\* The decision table, for a comparison In(state, spellings).
TableLabel(v, In(_, _)) ==
    IF Len(v) = 0 THEN "No checks"
    ELSE IF \E k \in 1..Len(v) : In(v[k], FailedLits) \/ In(v[k], ErrorLits)
         THEN "Failed"
    ELSE IF \E k \in 1..Len(v) : In(v[k], PendingLits) THEN "In Progress"
    ELSE IF /\ \E k \in 1..Len(v) : In(v[k], SucceededLits)
            /\ \A k \in 1..Len(v) : In(v[k], SucceededLits) \/ In(v[k], NeutralLits)
         THEN "Passed"
    ELSE "Unknown"

SpecifiedLabel(v) == TableLabel(v, LoweredIn)

Labels == {"No checks", "Failed", "In Progress", "Passed", "Unknown", "Unauthorized"}

\* C1: for a fetched, decoded, non-empty status list with at least one
\* failed-like or error-like record (compared case-insensitively), the label
\* returned is "Failed", whatever the other records are.
C1_FailedDominates ==
    (/\ slabel # NotYet
     /\ Fetched(sresp)
     /\ Some(sresp.value, FailedLike) \/ Some(sresp.value, ErrorLike))
    => slabel = "Failed"

\* A failed-like record in a spelling that is not lower case, after a
\* succeeded and a pending record, reduced to "Failed".
C1_Witness ==
    /\ slabel = "Failed"
    /\ sresp.value = <<InSucceeded, InPending, InFailureCap>>

\* C2 as claimed: for every fetched and decoded status list the label
\* returned is the one the decision table gives (No checks / Failed /
\* In Progress / Passed / Unknown) with the states compared
\* case-insensitively, and every label returned is one of the six
\* specified ones.
C2_DecisionTable ==
    slabel # NotYet =>
        /\ slabel \in Labels
        /\ Fetched(sresp) => slabel = TableLabel(sresp.value, FoldIn)

\* C2 as amended: the label returned is the one the decision table gives
\* when a record's kind is decided by lower-casing its state rune by rune
\* and comparing the result with the lower-case spellings (so U+0130 counts
\* as "i", and U+017F does not count as "s"); every label returned is one
\* of the six specified ones.
C2_DecisionTableLowered ==
    slabel # NotYet =>
        /\ slabel \in Labels
        /\ Fetched(sresp) => slabel = TableLabel(sresp.value, LoweredIn)

\* A succeeded record beside "FA<U+0130>LED", which lower-cases to "failed":
\* the label is "Failed".
C2_Witness ==
    /\ slabel = "Failed"
    /\ sresp.value = <<InSuccessCap, InFAILEDDotted>>

Permuted(v, p) == [k \in 1..Len(v) |-> v[p[k]]]

PermsOf(n) == Permutations(1..n)

\* C9: the label depends only on the multiset of states: every permutation
\* of the fetched list reduces to the label that was returned for it.
C9_OrderIndependent ==
    (slabel # NotYet /\ Fetched(sresp)) =>
        \A p \in PermsOf(Len(sresp.value)) :
            StatusReduce(Permuted(sresp.value, p)) = slabel

\* A list whose order could matter: an unrecognized record before a
\* succeeded one.
C9_Witness ==
    /\ slabel = "Unknown"
    /\ sresp.value = <<InQueued, InSucceeded>>

(***************************************************************************)
(* Claim about the vote summary (SpecVotes).                               *)
(***************************************************************************)
CountOf(rs, P(_)) == Cardinality({k \in 1..Len(rs) : P(rs[k])})

IsUp(v) == v > 0
IsDown(v) == v < 0
IsWaiting(v) == v = 0

\* C3: the empty list gives "0"; otherwise the summary is "-{down}/{total}"
\* when down > 0, else "+{up}/{total}" when up > 0, else
\* "~{waiting}/{total}"; the count shown is between 1 and total, and the
\* bare "{total}" return is never taken.
C3_VoteSummary ==
    votes # NotYet =>
        LET total == Len(reviewers)
            up == CountOf(reviewers, IsUp)
            down == CountOf(reviewers, IsDown)
            waiting == CountOf(reviewers, IsWaiting)
            shown == IF down > 0 THEN down ELSE IF up > 0 THEN up ELSE waiting
            sign == IF down > 0 THEN "-" ELSE IF up > 0 THEN "+" ELSE "~"
        IN  /\ total = 0 => votes = "0"
            /\ total > 0 =>
                /\ votes = sign \o ToString(shown) \o "/" \o ToString(total)
                /\ 1 <= shown /\ shown <= total
            /\ VotesBranch(reviewers) # "bare"

\* Mixed votes: two approvals and one rejection summarised as "-1/3".
C3_Witness ==
    /\ reviewers = <<5, -10, 10>>
    /\ votes = "-1/3"

(***************************************************************************)
(* Claims about the run of main() (Spec).                                  *)
(***************************************************************************)
ListRequestIdx == {k \in 1..Len(requests) : requests[k].url.endpoint = "pullrequests"}
StatusRequestIdx == {k \in 1..Len(requests) : requests[k].url.endpoint = "statuses"}
NumListRequests == Cardinality(ListRequestIdx)

\* A response (by its head) that is a 2xx whose body decodes / does not
\* decode strictly.
HeadOK(h) == h.transport = "ok" /\ h.code >= 200 /\ h.code <= 299
StrictFails(h) == HeadOK(h) /\ h.body # "exact"
PermissiveOK(h) == HeadOK(h) /\ h.body \in {"exact", "extra"}

FetchDone == pc \in {"main", "rows", "exited"} /\ Len(requests) >= 1

\* C4: a second request goes to the list endpoint exactly when the first
\* response was a 2xx whose strict decode failed; it equals the first
\* request; there is no third; the list returned is then the permissive
\* decode of the second response; and any failure of the second attempt is
\* returned as an error, which ends the run with log.Fatalln's exit code.
C4_RetryOnce ==
    /\ NumListRequests <= 2
    /\ ListRequestIdx = 1..NumListRequests
    /\ pc = "retry" => NumListRequests = 1 /\ StrictFails(heads[1])
    /\ FetchDone => (NumListRequests = 2 <=> StrictFails(heads[1]))
    /\ NumListRequests = 2 =>
        /\ requests[2] = requests[1]
        /\ heads[2] = ResponseHead(listResp)
        /\ IF PermissiveOK(heads[2])
           THEN err = "" /\ fetched = listResp.value
           ELSE /\ err # ""
                /\ pc \in {"main", "exited"}
                /\ pc = "exited" => exitCode = ExitFatal

\* The first body had unknown fields, the retry's body was decoded
\* permissively and its two pull requests were listed.
C4_Witness ==
    /\ pc = "exited"
    /\ NumListRequests = 2
    /\ heads[1].body = "extra"
    /\ heads[2].body = "extra"
    /\ Len(fetched) = 2
    /\ Len(stdout) = 3

RunSucceeded == pc = "exited" /\ cfg # NoCfg /\ err = ""

DegradedLabel(resp) ==
    IF resp.transport = "ok" /\ resp.code \in {401, 403} THEN "Unauthorized"
    ELSE IF ~Fetched(resp) THEN "Unknown"
    ELSE SpecifiedLabel(resp.value)

\* C5: a failed status call never aborts the run and degrades only its own
\* row: each row's label is decided by the response of its own call alone
\* ("Unauthorized" for 401/403, "Unknown" for a transport error, another
\* non-2xx status or a decode error), and a run whose list fetch succeeded
\* ends with exit code 0 and exactly one printed row per fetched pull
\* request.
C5_StatusFailureDegradesRow ==
    /\ Len(rows) = Len(statusResps)
    /\ \A k \in 1..Len(rows) :
        /\ rows[k].id = prs[k].PullRequestID
        /\ rows[k].status = DegradedLabel(statusResps[k])
    /\ rows # <<>> => pc \in {"rows", "exited"}
    /\ (RunSucceeded /\ Len(fetched) > 0) =>
        /\ exitCode = ExitOK
        /\ Len(rows) = Len(fetched)
        /\ {rows[k].id : k \in 1..Len(rows)}
            = {fetched[k].PullRequestID : k \in 1..Len(fetched)}
        /\ stdout = <<HeaderRow>> \o [k \in 1..Len(rows) |-> RenderRow(rows[k])]

\* The first status call got a 403 and the second a transport error; both
\* rows were printed, the first "Unauthorized", the second "Unknown".
C5_Witness ==
    /\ RunSucceeded
    /\ Len(rows) = 2
    /\ statusResps[1].code = 403
    /\ statusResps[2].transport = "error"
    /\ rows[1].status = "Unauthorized"
    /\ rows[2].status = "Unknown"
    /\ Len(stdout) = 3

\* The table of a run that fetched pull requests, once rendered.
TablePrinted == RunSucceeded /\ Len(fetched) > 0

\* The fetch position and the creation date of the pull request of row k.
RowPos(k) == CHOOSE j \in 1..Len(fetched) : fetched[j].PullRequestID = rows[k].id
RowDate(k) == fetched[RowPos(k)].CreationDate

\* The rendered rows are the fetched pull requests, one row each.
RowsAreTheFetched ==
    /\ Len(rows) = Len(fetched)
    /\ \A j \in 1..Len(fetched) : \E k \in 1..Len(rows) :
        rows[k].id = fetched[j].PullRequestID

\* C6 as claimed: the rows are the fetched pull requests by creation
\* timestamp descending, and pull requests with equal timestamps keep
\* their fetch order (a stable sort).
C6_StableSort ==
    TablePrinted =>
        /\ RowsAreTheFetched
        /\ \A a, b \in 1..Len(rows) : a < b =>
            \/ RowDate(a) > RowDate(b)
            \/ RowDate(a) = RowDate(b) /\ RowPos(a) < RowPos(b)

\* C6 as amended: the rows are the fetched pull requests ordered by creation
\* timestamp descending (no earlier row is older than a later one), and
\* pull requests with equal timestamps keep their fetch order when at most
\* 12 pull requests were fetched; in a longer list their order is not kept.
C6_SortedStableWhenShort ==
    TablePrinted =>
        /\ RowsAreTheFetched
        /\ \A a, b \in 1..Len(rows) : a < b =>
            \/ RowDate(a) > RowDate(b)
            \/ /\ RowDate(a) = RowDate(b)
               /\ Len(fetched) <= 12 => RowPos(a) < RowPos(b)

\* Thirteen pull requests of which only the last fetched is newer than the
\* rest: it is printed first, and among the twelve others, all created at
\* the same moment, the seventh fetched is printed before the first.
C6_Witness ==
    /\ TablePrinted
    /\ Len(fetched) = 13
    /\ \A j \in 1..12 : fetched[j].CreationDate < fetched[13].CreationDate
    /\ rows[1].id = fetched[13].PullRequestID
    /\ rows[2].id = fetched[7].PullRequestID
    /\ rows[7].id = fetched[1].PullRequestID
    /\ RowDate(2) = RowDate(7)
    /\ Len(stdout) = 14

ConfigInvalid == args.Org = "" \/ args.Project = "" \/ args.Pat = ""

\* A usage message is on standard error: failUsage's or the flag package's.
UsagePrinted ==
    \E k \in 1..Len(stderr) : stderr[k] = UsageText \/ stderr[k] = "Usage of lazydevops:"

ExpectedMsg == IF args.Org = "" \/ args.Project = "" THEN MsgFlags ELSE MsgPat

\* C7 as claimed: with --org empty, --project empty or LAZY_DEV_OPS_PAT empty, the run
\* issues no request at any point, and once getConfig has run the process
\* has printed the usage message and exited with code 2.
C7_ConfigErrorNoRequest ==
    ConfigInvalid =>
        /\ requests = <<>>
        /\ stdout = <<>>
        /\ pc \in {"getConfig", "exited"}
        /\ pc = "exited" => UsagePrinted /\ exitCode = 2

\* C7 as amended: with --org empty, --project empty or LAZY_DEV_OPS_PAT
\* empty, the run issues no request at any point and ends with a usage
\* message on standard error; its exit code is 2, except that a command
\* line asking for help (-h) makes flag.Parse print the flag usage and exit
\* with code 0 before the three values are looked at.
C7_ConfigErrorNoRequestHelp ==
    ConfigInvalid =>
        /\ requests = <<>>
        /\ stdout = <<>>
        /\ pc \in {"getConfig", "exited"}
        /\ pc = "exited" =>
            /\ UsagePrinted
            /\ exitCode = IF args.Extra = "-h" THEN 0 ELSE 2
            /\ args.Extra = "" => stderr = <<"Error: " \o ExpectedMsg, UsageText>>

\* Both flags given, the token missing: exit code 2.
C7_Witness ==
    /\ args.Extra = ""
    /\ args.Org # ""
    /\ args.Project # ""
    /\ args.Pat = ""
    /\ pc = "exited"
    /\ exitCode = 2
    /\ requests = <<>>

\* The list fetch failed: the first response was a transport error or not
\* a 2xx, or the retry's response was one of these or did not decode.
ListFetchFailed ==
    /\ FetchDone
    /\ \/ ~HeadOK(heads[1])
       \/ /\ StrictFails(heads[1])
          /\ ~PermissiveOK(heads[2])

\* C8: after any failure of the list fetch nothing has been written to
\* standard output, no row has been built, no status request has been
\* issued, and the process exits with a non-zero code.
C8_ListFailureFatal ==
    ListFetchFailed =>
        /\ stdout = <<>>
        /\ rows = <<>>
        /\ StatusRequestIdx = {}
        /\ pc \in {"main", "exited"}
        /\ pc = "exited" => exitCode # 0 /\ stderr # <<>>

\* A 403 on the list call: exited with 1 and an error line.
C8_Witness ==
    /\ pc = "exited"
    /\ Len(heads) = 1
    /\ heads[1].code = 403
    /\ exitCode = 1
    /\ Len(stderr) = 1

\* C10: status requests are issued only after the list fetch has completed
\* without error, one per pull request in the sorted row order, each
\* answered before the next is issued and none repeated whatever its
\* outcome; a successful run has issued exactly as many as pull requests
\* were fetched; with none fetched it issues none, prints
\* "No active pull requests found." and exits with code 0.
C10_StatusCallsOncePerPR ==
    /\ Len(heads) = Len(requests)
    /\ StatusRequestIdx = {NumListRequests + j : j \in 1..Len(rows)}
    /\ StatusRequestIdx # {} => pc \in {"rows", "exited"} /\ err = ""
    /\ Len(rows) <= Len(prs)
    /\ \A j \in 1..Len(rows) :
        /\ requests[NumListRequests + j] = StatusRequest(cfg, prs[j])
        /\ \A i \in 1..Len(rows) :
            requests[NumListRequests + i] = requests[NumListRequests + j] => i = j
    /\ RunSucceeded =>
        /\ Cardinality(StatusRequestIdx) = Len(fetched)
        /\ Len(fetched) = 0 =>
            /\ stdout = << <<"No active pull requests found.">> >>
            /\ exitCode = ExitOK

\* Two pull requests; the first status call failed in transport and was not
\* repeated: one list request and two status requests in all.
C10_Witness ==
    /\ RunSucceeded
    /\ Len(fetched) = 2
    /\ Len(requests) = 3
    /\ statusResps[1].transport = "error"
    /\ statusResps[2].transport = "ok"
    /\ requests[2].url.pullRequestId = prs[1].PullRequestID
    /\ requests[3].url.pullRequestId = prs[2].PullRequestID

====
